---- MODULE Spec2Model ----
(***************************************************************************)
(* Model of the data-access layer of warrant:                              *)
(*   - database.SQL.WithinTransaction, the capability operations of SQL    *)
(*     and SqlTx and SQL.getQueryableFromContext (pkg and server builds of *)
(*     sql.go);                                                            *)
(*   - SQLInterceptor.StmtQueryContext / StmtExecContext (server build);   *)
(*   - the keyset pagination of objecttype.MySQLRepository.List, and      *)
(*     Create / DeleteByTypeId / GetByTypeId of the same repository;       *)
(*   - RoleService.Create and RoleService.List (pkg build).                *)
(* Call chains (goroutines) are modelled as processes with an explicit     *)
(* stack of WithinTransaction frames; the sql driver is the environment.   *)
(***************************************************************************)
EXTENDS Integers, Sequences, FiniteSets, TLC

\* ------------------------------------------------------------------ bounds
MaxDepth == 3           \* nesting depth of WithinTransaction calls in a chain
MaxTx == 2              \* physical transactions begun in one behaviour

\* the concurrent call chains (goroutines), each with its own root context
Chains == {"A", "B"}

\* ---------------------------------------------------------- error values
\* A Go error is its root cause plus the messages errors.Wrap put around it,
\* outermost first.  Two errors are == only when both parts agree.
Err(c) == [cause |-> c, msgs |-> <<>>]
Nil == Err("nil")
ErrNoRows == Err("sql.ErrNoRows")
ErrDriver == Err("driver")
ErrBegin == Err("begin")
ErrCommit == Err("commit")
ErrRollback == Err("rollback")
UowErrors == {Err("e1"), Err("e2")}
Panics == {"p1", "p2"}
StoreResults == {Nil, ErrNoRows, ErrDriver}
Ops == {"Exec", "Get", "NamedExec", "Prepare", "Query", "QueryRow", "Select"}
Builds == {"pkg", "server"}

\* errors.Wrap(err, msg)
Wrap(err, msg) == [cause |-> err.cause, msgs |-> <<msg>> \o err.msgs]

\* errors.Cause(err)
Cause(err) == Err(err.cause)

\* ---------------------------------------------------------------- contexts
\* A context is the transaction stored under txKey{}, or NoTx.
NoTx == 0
DBHandle == 0

VARIABLES
    txs,        \* sequence of physical transactions: [owner, status]
    stack,      \* per chain: stack of WithinTransaction frames
    pc,         \* per chain: "idle", "uow", "ret", "panic", "repanic", "done"
    val,        \* per chain: error being returned / panic value in flight
    raised,     \* per chain: the panic value the unit of work raised
    events,     \* per chain: what the current outermost call did, in order:
                \* begin/beginfail/commit/rollback (arg: the transaction),
                \* panic (arg: the depth it was raised at)
    deepest,    \* per chain: deepest nesting the current outermost call reached
    lastRet,    \* the WithinTransaction call that completed last
    lastOp,     \* the capability operation that executed last
    outcome     \* per chain: result of the outermost call

txvars == <<txs, stack, pc, val, raised, events, deepest, lastRet, lastOp, outcome>>

\* State of the objectType table and of a client paging through List
VARIABLES
    rows,       \* the objectType table: a set of rows with distinct typeId
    phase,      \* "idle", "paging", "end", "failed"
    req,        \* the ListParams of the request made last
    page,       \* the models the request made last returned
    visited     \* every row returned since the paging started, in order

listvars == <<rows, phase, req, page, visited>>

\* The statement the query interceptor handled last
VARIABLES
    icpt        \* what the driver answered, what the interceptor returned
                \* and what it logged

icptvars == <<icpt>>

\* A caller of the objectType repository
VARIABLES
    repo        \* per typeId the writes that succeeded on it so far, and the
                \* repository call made last with what it returned

repovars == <<repo>>

\* The rows the statements of the units of work write
VARIABLES
    store,      \* the committed rows
    pending     \* the rows written on a transaction that has not ended yet

datavars == <<store, pending>>

\* A caller of RoleService
VARIABLES
    job,        \* the RoleService call in progress and the step it is at
    svc         \* what the RoleService call made last returned

svcvars == <<job, svc>>
vars == <<txvars, listvars, icptvars, repovars, datavars, svcvars>>

NoRet == [done |-> FALSE]
NoOp == [done |-> FALSE]
NoOutcome == [kind |-> "none"]
NoStmt == [done |-> FALSE]
NoCall == [op |-> "none"]
NoJob == [step |-> "none"]

\* ------------------------------------------------- code of WithinTransaction
\* (mutant) the lookup never finds the transaction
HasTx_never(ctx) == FALSE

\* _, ok := ctx.Value(txKey{}).(*SqlTx)
HasTx(ctx) == ctx # NoTx

\* context.WithValue(ctx, txKey{}, &SqlTx{Tx: tx})
WithValue(ctx, tx) == tx

\* (mutant) the nested unit of work is handed a context without the scope
ReuseContext_root(ctx) == NoTx

\* txFunc(ctx): the context a call that reuses the transaction hands on
ReuseContext(ctx) == ctx

\* (mutant) the begin failure is dropped
BeginFailure_swallowed(err) == Nil

\* return errors.Wrap(err, "Error beginning sql transaction")
BeginFailure(err) == Wrap(err, "Error beginning sql transaction")

\* (mutant) the deferred function commits whatever the unit of work returned
DeferredEnd_alwaysCommit(panicked, err) ==
    IF panicked THEN "rollback" ELSE "commit"

\* (mutant) the deferred function does not look for a panic
DeferredEnd_noRecover(panicked, err) ==
    IF err # Nil THEN "rollback" ELSE "commit"

\* the branch the deferred function takes
DeferredEnd(panicked, err) ==
    IF panicked THEN "rollback"
    ELSE IF err # Nil THEN "rollback"
    ELSE "commit"

\* (mutant) the result is the variable the deferred function assigns
ReturnValue_named(uowErr, deferErr) == deferErr

\* The result of WithinTransaction is unnamed: `return err` fixes the value
\* before the deferred function runs, so its assignments to err are lost.
ReturnValue(uowErr, deferErr) == uowErr

\* panic(p) in the deferred function
RePanic(p, deferErr) == p

\* (mutant) every statement goes to the shared connection
getQueryableFromContext_db(ctx) == DBHandle

\* (mutant) the scope is kept in one place shared by all chains
getQueryableFromContext_shared(ctx) == IF HasTx(ctx) THEN Len(txs) ELSE DBHandle

\* SQL.getQueryableFromContext
getQueryableFromContext(ctx) == IF HasTx(ctx) THEN ctx ELSE DBHandle

\* how many events of the kinds K the current outermost call of c logged
CountEv(c, K) == Cardinality({i \in DOMAIN events[c] : events[c][i].k \in K})

Max(a, b) == IF a >= b THEN a ELSE b

Top(c) == stack[c][Len(stack[c])]
Pop(c) == SubSeq(stack[c], 1, Len(stack[c]) - 1)
CurCtx(c) == IF stack[c] = <<>> THEN NoTx ELSE Top(c).ctx

TxInit ==
    /\ txs = <<>>
    /\ stack = [c \in Chains |-> <<>>]
    /\ pc = [c \in Chains |-> "idle"]
    /\ val = [c \in Chains |-> Nil]
    /\ raised = [c \in Chains |-> "none"]
    /\ events = [c \in Chains |-> <<>>]
    /\ deepest = [c \in Chains |-> 0]
    /\ lastRet = NoRet
    /\ lastOp = NoOp
    /\ outcome = [c \in Chains |-> NoOutcome]

\* no table and no paging client
ListIdle ==
    /\ rows = {}
    /\ phase = "idle"
    /\ req = <<>>
    /\ page = <<>>
    /\ visited = <<>>

\* no repository call was made yet
RepoIdle == repo = [hist |-> [t \in {} |-> "none"], last |-> NoCall]

\* nothing was written and RoleService was not called yet
DataIdle == store = {} /\ pending = {}
SvcIdle == job = NoJob /\ svc = NoCall

Init ==
    /\ TxInit
    /\ ListIdle
    /\ icpt = NoStmt
    /\ RepoIdle
    /\ DataIdle
    /\ SvcIdle

\* --------------------------------------------- capability operations
\* SqlTx.<op>Context: the classification applied on the transaction handle.
\* QueryRowContext returns a *sql.Row that carries the error untouched;
\* PrepareContext wraps every error.
SqlTxClassify(op, err) ==
    IF err = Nil THEN Nil
    ELSE IF op = "QueryRow" THEN err
    ELSE IF op = "Prepare" THEN Wrap(err, "sql error")
    ELSE IF err = ErrNoRows THEN err
    ELSE Wrap(err, "sql error")

\* SQL.<op>Context: the classification applied after the resolved handle ran.
SQLClassify(op, err) ==
    IF err = Nil THEN Nil
    ELSE IF op = "QueryRow" THEN err
    ELSE IF op = "Prepare" THEN Wrap(err, "Error when calling sql")
    ELSE IF err = ErrNoRows THEN err
    ELSE Wrap(err, "Error when calling sql")

\* The error a handle gives back to SQL.<op>Context: sqlx.DB returns the
\* driver's error as it is, SqlTx classifies it first.
HandleResult(handle, op, storeErr) ==
    IF handle = DBHandle THEN storeErr ELSE SqlTxClassify(op, storeErr)

\* Whether SqlTx.<op>Context hands the caller's ctx to the statement it runs:
\* the server build calls Tx.Exec and Tx.Get, which take no context.
SqlTxPassesContext(b, op) == ~(b = "server" /\ op \in {"Exec", "Get"})

\* How the repositories recognise the sentinel: switch err { case sql.ErrNoRows }
IsErrNoRows(err) == err = ErrNoRows

\* ------------------------------------------------------- rows and writes
\* A row is [kind, id, tag].  A row of kind "row" is written by a unit of
\* work at some nesting depth: its id is <<depth>> and its tag
\* says how that unit of work ended: "open" (still running), "ok" (returned
\* nil), "failed" (returned an error or panicked).
Row(kind, id, tag) == [kind |-> kind, id |-> id, tag |-> tag]

\* the rows a statement run on handle sees
Visible(handle) == store \cup {w.row : w \in {v \in pending : v.tx = handle}}

\* the unit of work at nesting depth of transaction tx ended
Retag(pend, tx, depth, tag) ==
    {IF w.tx = tx /\ w.row.tag = "open" /\ w.row.id[1] = depth
     THEN [w EXCEPT !.row.tag = tag] ELSE w : w \in pend}

\* (mutant) the commit leaves out what failed units of work wrote
Commit_dropsFailed(st, pend, tx) ==
    st \cup {w.row : w \in {v \in pend : v.tx = tx /\ v.row.tag # "failed"}}

\* tx.Commit(): every row written on the transaction becomes durable
Commit(st, pend, tx) == st \cup {w.row : w \in {v \in pend : v.tx = tx}}

\* the rows of tx leave pending when it ends: a commit that succeeds makes
\* them durable; a rollback, or a commit or rollback that fails, drops them
EndData(tx, depth, end, endErr, tag) ==
    LET pend == Retag(pending, tx, depth, tag) IN
    /\ store' = IF end = "commit" /\ endErr = Nil THEN Commit(store, pend, tx) ELSE store
    /\ pending' = {w \in pend : w.tx # tx}

\* ------------------------------------------------------------------ actions
\* A frame finished (returned ret, or unwound by a panic): pop it and hand
\* control back to the enclosing unit of work, or end the outermost call.
Finish(c, rec, panicking) ==
    /\ stack' = [stack EXCEPT ![c] = Pop(c)]
    /\ lastRet' = rec
    /\ val' = [val EXCEPT ![c] = Nil]
    /\ IF Len(stack[c]) = 1
       THEN /\ pc' = [pc EXCEPT ![c] = "done"]
            /\ outcome' = [outcome EXCEPT ![c] =
                  IF panicking THEN [kind |-> "panic", p |-> rec.p]
                  ELSE [kind |-> "ret", err |-> rec.ret]]
       ELSE /\ pc' = [pc EXCEPT ![c] = IF panicking THEN "panic" ELSE "uow"]
            /\ UNCHANGED outcome

Ret(c, f, uowRan, uowErr, ret, end, endErr, panicked, p) ==
    [done |-> TRUE, chain |-> c, ctxIn |-> f.ctxIn, ctx |-> f.ctx, tx |-> f.tx,
     began |-> IF f.tx = NoTx THEN "reused" ELSE "ok",
     uowRan |-> uowRan, uowErr |-> uowErr, ret |-> ret,
     end |-> end, endErr |-> endErr, panicked |-> panicked, p |-> p]

\* lastRet and lastOp describe the step just taken; any other step clears them
NoReport == lastRet' = NoRet /\ lastOp' = NoOp

\* The caller's context: the root context of an idle chain, or the context
\* the running unit of work was handed.
CanCall(c) ==
    \/ pc[c] = "idle"
    \/ pc[c] = "uow" /\ Len(stack[c]) < MaxDepth

\* WithinTransaction, ctx already carries a transaction: txFunc(ctx)
WithinTransactionReuse(c) ==
    /\ CanCall(c)
    /\ HasTx(CurCtx(c))
    /\ stack' = [stack EXCEPT ![c] =
          Append(@, [ctxIn |-> CurCtx(c), ctx |-> ReuseContext(CurCtx(c)),
                     tx |-> NoTx])]
    /\ deepest' = [deepest EXCEPT ![c] = Max(@, Len(stack[c]) + 1)]
    /\ pc' = [pc EXCEPT ![c] = "uow"]
    /\ NoReport
    /\ UNCHANGED <<txs, val, raised, events, outcome, listvars, icptvars, repovars, datavars, svcvars>>

\* WithinTransaction, no transaction in ctx, ds.DB.Beginx() succeeds:
\* txFunc(context.WithValue(ctx, txKey{}, &SqlTx{Tx: tx}))
WithinTransactionBegin(c) ==
    /\ CanCall(c)
    /\ ~HasTx(CurCtx(c))
    /\ Len(txs) < MaxTx
    /\ LET tx == Len(txs) + 1 IN
       /\ txs' = Append(txs, [owner |-> c, status |-> "open"])
       /\ stack' = [stack EXCEPT ![c] =
             Append(@, [ctxIn |-> CurCtx(c), ctx |-> WithValue(CurCtx(c), tx),
                        tx |-> tx])]
       /\ events' = [events EXCEPT ![c] = Append(@, [k |-> "begin", arg |-> tx])]
       /\ deepest' = [deepest EXCEPT ![c] = Max(@, Len(stack[c]) + 1)]
    /\ pc' = [pc EXCEPT ![c] = "uow"]
    /\ NoReport
    /\ UNCHANGED <<val, raised, outcome, listvars, icptvars, repovars, datavars, svcvars>>

\* WithinTransaction, no transaction in ctx, ds.DB.Beginx() fails: the call
\* returns at once (a chain sees at most one failed begin per outermost call)
WithinTransactionBeginFail(c) ==
    /\ CanCall(c)
    /\ ~HasTx(CurCtx(c))
    /\ CountEv(c, {"beginfail"}) = 0
    /\ LET rec == [done |-> TRUE, chain |-> c, ctxIn |-> CurCtx(c), ctx |-> NoTx,
                   tx |-> NoTx, began |-> "failed",
                   uowRan |-> FALSE, uowErr |-> Nil, ret |-> BeginFailure(ErrBegin),
                   end |-> "none", endErr |-> Nil, panicked |-> FALSE, p |-> "none"]
       IN /\ lastRet' = rec
          /\ IF pc[c] = "idle"
             THEN /\ pc' = [pc EXCEPT ![c] = "done"]
                  /\ outcome' = [outcome EXCEPT ![c] = [kind |-> "ret", err |-> rec.ret]]
             ELSE UNCHANGED <<pc, outcome>>
    /\ events' = [events EXCEPT ![c] = Append(@, [k |-> "beginfail", arg |-> NoTx])]
    /\ lastOp' = NoOp
    /\ UNCHANGED <<txs, stack, val, raised, deepest, listvars, icptvars, repovars, datavars, svcvars>>

\* A capability operation of SQL issued with the caller's context
CapabilityOp(c, op, storeErr) ==
    /\ pc[c] \in {"idle", "uow"}
    /\ LET ctx == CurCtx(c)
           handle == getQueryableFromContext(ctx)
       IN lastOp' = [done |-> TRUE, chain |-> c, op |-> op, ctx |-> ctx,
                     scope |-> (IF stack[c] = <<>> THEN NoTx ELSE stack[c][1].tx),
                     depth |-> Len(stack[c]),
                     handle |-> handle,
                     open |-> (handle # DBHandle /\ handle \in DOMAIN txs
                                 /\ txs[handle].status = "open"),
                     ctxPassed |-> [b \in Builds |->
                                    handle = DBHandle \/ SqlTxPassesContext(b, op)],
                     storeErr |-> storeErr,
                     err |-> SQLClassify(op, HandleResult(handle, op, storeErr))]
    /\ lastRet' = NoRet
    /\ UNCHANGED <<txs, stack, pc, val, raised, events, deepest, outcome, listvars, icptvars, repovars, datavars, svcvars>>

\* The unit of work returns e
UowReturn(c, e) ==
    /\ pc[c] = "uow"
    /\ pc' = [pc EXCEPT ![c] = "ret"]
    /\ val' = [val EXCEPT ![c] = e]
    /\ NoReport
    /\ UNCHANGED <<txs, stack, raised, events, deepest, outcome, listvars, icptvars, repovars, datavars, svcvars>>

\* The unit of work panics with p
UowPanic(c, p) ==
    /\ pc[c] = "uow"
    /\ pc' = [pc EXCEPT ![c] = "panic"]
    /\ raised' = [raised EXCEPT ![c] = p]
    /\ events' = [events EXCEPT ![c] = Append(@, [k |-> "panic", arg |-> Len(stack[c])])]
    /\ NoReport
    /\ UNCHANGED <<txs, stack, val, deepest, outcome, listvars, icptvars, repovars, datavars, svcvars>>

\* err := txFunc(ctx); return err     (the call that reused a transaction)
ReturnReuse(c) ==
    /\ pc[c] = "ret"
    /\ Top(c).tx = NoTx
    /\ Finish(c, Ret(c, Top(c), TRUE, val[c], val[c], "none", Nil, FALSE, "none"), FALSE)
    /\ pending' = Retag(pending, Top(c).ctx, Len(stack[c]),
                        IF val[c] = Nil THEN "ok" ELSE "failed")
    /\ UNCHANGED store
    /\ lastOp' = NoOp
    /\ UNCHANGED <<txs, raised, events, deepest, listvars, icptvars, repovars, svcvars>>

\* The status a transaction is left in by tx.Commit() / tx.Rollback()
Ended(end, endErr) ==
    IF endErr # Nil THEN "failed"
    ELSE IF end = "commit" THEN "committed" ELSE "rolledback"

\* The deferred function of the call that began the transaction, no panic:
\* tx.Rollback() when err != nil, tx.Commit() otherwise; either may fail.
DeferredEndTx(c, endErr) ==
    /\ pc[c] = "ret"
    /\ Top(c).tx # NoTx
    /\ LET tx == Top(c).tx
           end == DeferredEnd(FALSE, val[c])
       IN /\ endErr \in {Nil, IF end = "commit" THEN ErrCommit ELSE ErrRollback}
          /\ txs' = [txs EXCEPT ![tx].status = Ended(end, endErr)]
          /\ events' = [events EXCEPT ![c] = Append(@, [k |-> end, arg |-> tx])]
          /\ Finish(c, Ret(c, Top(c), TRUE, val[c], ReturnValue(val[c], endErr),
                           end, endErr, FALSE, "none"), FALSE)
          /\ EndData(tx, Len(stack[c]), end, endErr,
                     IF val[c] = Nil THEN "ok" ELSE "failed")
    /\ lastOp' = NoOp
    /\ UNCHANGED <<raised, deepest, listvars, icptvars, repovars, svcvars>>

\* A panic passes through a call that reused a transaction: it has no defer
PanicUnwind(c) ==
    /\ pc[c] = "panic"
    /\ Top(c).tx = NoTx
    /\ Finish(c, Ret(c, Top(c), TRUE, Nil, Nil, "none", Nil, TRUE, raised[c]), TRUE)
    /\ pending' = Retag(pending, Top(c).ctx, Len(stack[c]), "failed")
    /\ UNCHANGED store
    /\ lastOp' = NoOp
    /\ UNCHANGED <<txs, raised, events, deepest, listvars, icptvars, repovars, svcvars>>

\* The deferred function recovers the panic and ends the transaction
DeferredRecover(c, endErr) ==
    /\ pc[c] = "panic"
    /\ Top(c).tx # NoTx
    /\ LET tx == Top(c).tx
           end == DeferredEnd(TRUE, val[c])
       IN /\ endErr \in {Nil, IF end = "commit" THEN ErrCommit ELSE ErrRollback}
          /\ txs' = [txs EXCEPT ![tx].status = Ended(end, endErr)]
          /\ events' = [events EXCEPT ![c] = Append(@, [k |-> end, arg |-> tx])]
          /\ val' = [val EXCEPT ![c] = endErr]
          /\ EndData(tx, Len(stack[c]), end, endErr, "failed")
    /\ pc' = [pc EXCEPT ![c] = "repanic"]
    /\ NoReport
    /\ UNCHANGED <<stack, raised, deepest, outcome, listvars, icptvars, repovars, svcvars>>

\* panic(p) at the end of the deferred function
DeferredRePanic(c) ==
    /\ pc[c] = "repanic"
    /\ LET ev == events[c][Len(events[c])] IN
       Finish(c, Ret(c, Top(c), TRUE, Nil, Nil, ev.k, val[c], TRUE,
                     RePanic(raised[c], val[c])), TRUE)
    /\ lastOp' = NoOp
    /\ UNCHANGED <<txs, raised, events, deepest, listvars, icptvars, repovars, datavars, svcvars>>

\* The caller of a finished outermost call starts over
NextCall(c) ==
    /\ pc[c] = "done"
    /\ Len(txs) < MaxTx
    /\ pc' = [pc EXCEPT ![c] = "idle"]
    /\ raised' = [raised EXCEPT ![c] = "none"]
    /\ events' = [events EXCEPT ![c] = <<>>]
    /\ deepest' = [deepest EXCEPT ![c] = 0]
    /\ outcome' = [outcome EXCEPT ![c] = NoOutcome]
    /\ NoReport
    /\ UNCHANGED <<txs, stack, val, listvars, icptvars, repovars, datavars, svcvars>>

\* Two call chains run transactions concurrently; inside and outside them
\* they issue the statements the repositories issue.
Next ==
    \/ \E c \in Chains : WithinTransactionReuse(c)
    \/ \E c \in Chains : WithinTransactionBegin(c)
    \/ \E c \in Chains : WithinTransactionBeginFail(c)
    \/ \E c \in Chains, op \in {"Exec", "Get"} : CapabilityOp(c, op, Nil)
    \/ \E c \in Chains, e \in UowErrors \cup {Nil} : UowReturn(c, e)
    \/ \E c \in Chains, p \in Panics : UowPanic(c, p)
    \/ \E c \in Chains : ReturnReuse(c)
    \/ \E c \in Chains, e \in {Nil, ErrCommit, ErrRollback} : DeferredEndTx(c, e)
    \/ \E c \in Chains : PanicUnwind(c)
    \/ \E c \in Chains, e \in {Nil, ErrCommit, ErrRollback} : DeferredRecover(c, e)
    \/ \E c \in Chains : DeferredRePanic(c)
    \/ \E c \in Chains : NextCall(c)

Spec == Init /\ [][Next]_vars

\* One call chain issues every capability operation, with every answer of
\* the store, on the shared connection and inside (nested) transactions.
NextOps ==
    \/ WithinTransactionReuse("A")
    \/ WithinTransactionBegin("A")
    \/ \E op \in Ops, e \in StoreResults : CapabilityOp("A", op, e)
    \/ \E e \in UowErrors \cup {Nil} : UowReturn("A", e)
    \/ ReturnReuse("A")
    \/ \E e \in {Nil, ErrCommit, ErrRollback} : DeferredEndTx("A", e)
    \/ NextCall("A")

SpecOps == Init /\ [][NextOps]_vars

\* SQL.ExecContext of an INSERT issued with the caller's context: the row is
\* written on the transaction of the context, or on the shared connection,
\* where it is durable at once
ExecInsert(c) ==
    /\ pc[c] \in {"idle", "uow"}
    /\ LET handle == getQueryableFromContext(CurCtx(c)) IN
       IF handle = DBHandle
       THEN /\ store' = store \cup {Row("row", <<Len(stack[c])>>, "ok")}
            /\ UNCHANGED pending
       ELSE /\ pending' = pending \cup
                  {[tx |-> handle, row |-> Row("row", <<Len(stack[c])>>, "open")]}
            /\ UNCHANGED store
    /\ NoReport
    /\ UNCHANGED <<txs, stack, pc, val, raised, events, deepest, outcome, listvars,
                   icptvars, repovars, svcvars>>

\* One outermost call nests units of work that write rows and return errors
\* their callers keep or discard.
NextNest ==
    \/ WithinTransactionReuse("A")
    \/ WithinTransactionBegin("A")
    \/ ExecInsert("A")
    \/ \E e \in {Nil, Err("e1")} : UowReturn("A", e)
    \/ ReturnReuse("A")
    \/ \E e \in {Nil, ErrCommit, ErrRollback} : DeferredEndTx("A", e)

SpecNest == Init /\ [][NextNest]_vars

\* ------------------------------------------------------------ SQLInterceptor
\* Durations are counted in half milliseconds; query texts are sequences of
\* words (naturals) and whitespace.
MaxDuration == 104      \* longest statement, in half milliseconds

SlowMillis == 50        \* if duration.Milliseconds() > 50
Space == 0              \* a whitespace character of the query text
QueryTexts == {<<1, Space, 2>>, <<Space, 1, Space, Space, 2, Space>>}
Durations == 0..MaxDuration
NoResult == "nil"

\* what conn.QueryContext / conn.ExecContext may answer: (rows or result, err)
DriverAnswers ==
    {[result |-> "r1", err |-> Nil], [result |-> "r2", err |-> Nil],
     [result |-> NoResult, err |-> ErrNoRows], [result |-> NoResult, err |-> ErrDriver]}

\* Duration.Milliseconds(): whole milliseconds, rounded down
Milliseconds(d) == d \div 2

\* strings.Join(strings.Fields(query), " ")
RECURSIVE Fields(_)
Fields(text) ==
    IF text = <<>> THEN <<>>
    ELSE IF Head(text) = Space THEN Fields(Tail(text))
    ELSE IF Len(text) > 1 /\ text[2] # Space
         THEN LET rest == Fields(Tail(text)) IN <<<<Head(text)>> \o Head(rest)>> \o Tail(rest)
         ELSE <<<<Head(text)>>>> \o Fields(Tail(text))

RECURSIVE Join(_)
Join(words) ==
    IF words = <<>> THEN <<>>
    ELSE IF Len(words) = 1 THEN words[1]
    ELSE words[1] \o <<Space>> \o Join(Tail(words))

NoWarning == [logged |-> FALSE]

\* log.Warn().Str("query", ...).Err(err).Dur("duration", duration).Msg(...)
SlowWarning(query, answer, d) ==
    IF Milliseconds(d) > SlowMillis
    THEN [logged |-> TRUE, query |-> Join(Fields(query)), err |-> answer.err,
          duration |-> d]
    ELSE NoWarning

\* (mutant) a slow statement is reported as failed
Intercepted_slowFails(answer, d) ==
    IF Milliseconds(d) > SlowMillis
    THEN [result |-> NoResult, err |-> ErrDriver]
    ELSE answer

\* return ctx, rows, err   /   return result, err
Intercepted(answer, d) == answer

\* SQLInterceptor.StmtQueryContext and SQLInterceptor.StmtExecContext
StmtContext(kind, ctx, query, answer, d) ==
    /\ icpt' = [done |-> TRUE, kind |-> kind, ctx |-> ctx, query |-> query,
                answer |-> answer, duration |-> d,
                warning |-> SlowWarning(query, answer, d),
                retCtx |-> IF kind = "query" THEN ctx ELSE NoTx,
                ret |-> Intercepted(answer, d)]
    /\ UNCHANGED <<txvars, datavars, svcvars, listvars, repovars>>

StmtQueryContext(ctx, query, answer, d) == StmtContext("query", ctx, query, answer, d)

StmtExecContext(ctx, query, answer, d) == StmtContext("exec", ctx, query, answer, d)

NextStmt ==
    \/ \E ctx \in {NoTx, 1}, query \in QueryTexts, answer \in DriverAnswers, d \in Durations :
          StmtQueryContext(ctx, query, answer, d)
    \/ \E ctx \in {NoTx, 1}, query \in QueryTexts, answer \in DriverAnswers, d \in Durations :
          StmtExecContext(ctx, query, answer, d)

SpecStmt == Init /\ [][NextStmt]_vars


\* ------------------------------------------- objecttype.MySQLRepository.List
\* SQL values (strings, timestamps, the limit) are sequences of naturals,
\* compared lexicographically; the empty sequence is Go's "" and nil.
MaxLimit == 3           \* largest page size a client asks for

Absent == <<>>
Pct == 0                \* the LIKE wildcard '%'
Asc == "ASC"
Desc == "DESC"
TypeIds == {<<1>>, <<1, 2>>, <<2>>, <<2, 1>>}
Stamps == {<<1>>, <<2>>, <<3>>}
Columns == {"typeId", "createdAt"}
SortBys == {"objectType", "typeId", "createdAt"}
Limits == 1..MaxLimit

RowChoices ==
    {[present |-> FALSE, createdAt |-> <<1>>, deleted |-> FALSE]}
       \cup [present : {TRUE}, createdAt : Stamps, deleted : BOOLEAN]

\* the tables: typeId is a unique key, createdAt is not, rows may be soft-deleted
Tables ==
    {{[typeId |-> t, createdAt |-> f[t].createdAt, deleted |-> f[t].deleted] :
         t \in {u \in TypeIds : f[u].present}} : f \in [TypeIds -> RowChoices]}

Column(r, col) == IF col = "typeId" THEN r.typeId ELSE r.createdAt

RECURSIVE Less(_, _)
Less(a, b) ==
    IF b = <<>> THEN FALSE
    ELSE IF a = <<>> THEN TRUE
    ELSE IF a[1] # b[1] THEN a[1] < b[1]
    ELSE Less(Tail(a), Tail(b))

\* s LIKE pat
RECURSIVE Like(_, _)
Like(s, pat) ==
    IF pat = <<>> THEN s = <<>>
    ELSE IF Head(pat) = Pct
         THEN \E k \in 0..Len(s) : Like(SubSeq(s, k + 1, Len(s)), Tail(pat))
    ELSE s # <<>> /\ Head(s) = Head(pat) /\ Like(Tail(s), Tail(pat))

Cmp(op, a, b) == IF op = ">" THEN Less(b, a) ELSE Less(a, b)

\* (mutant) the forward cursor always compares with >
AfterOp_alwaysGreater(sortOrder) == ">"

\* the comparison of the forward cursor: > ascending, < otherwise
AfterOp(sortOrder) == IF sortOrder = Asc THEN ">" ELSE "<"

\* (mutant) the backward cursor compares as the forward cursor does
BeforeOp_asAfter(sortOrder) == AfterOp(sortOrder)

\* the comparison of the backward cursor: < ascending, > otherwise
BeforeOp(sortOrder) == IF sortOrder = Asc THEN "<" ELSE ">"

\* fmt.Sprintf("%%%s%%", listParams.Query)
SearchTerm(q) == <<Pct>> \o q \o <<Pct>>

NoPart == [where |-> <<>>, args |-> <<>>]

\* AND typeId LIKE ?             (one placeholder, two replacements)
FilterPart(p) ==
    IF p.Query # Absent
    THEN [where |-> <<[k |-> "like", col |-> "typeId", op |-> "LIKE", n |-> 1]>>,
          args |-> <<SearchTerm(p.Query), SearchTerm(p.Query)>>]
    ELSE NoPart

\* (mutant) the forward cursor compares the typeId only
AfterPart_idOnly(p) ==
    IF p.AfterId # Absent
    THEN [where |-> <<[k |-> "id", col |-> "typeId",
                       op |-> AfterOp(p.SortOrder), n |-> 1]>>,
          args |-> <<p.AfterId>>]
    ELSE NoPart

\* AND (sortBy op ? OR (typeId op ? AND sortBy = ?))   or   AND typeId op ?
AfterPart(p) ==
    IF p.AfterId # Absent
    THEN IF p.AfterValue # Absent
         THEN [where |-> <<[k |-> "keyset", col |-> p.SortBy,
                            op |-> AfterOp(p.SortOrder), n |-> 3]>>,
               args |-> <<p.AfterValue, p.AfterId, p.AfterValue>>]
         ELSE [where |-> <<[k |-> "id", col |-> "typeId",
                            op |-> AfterOp(p.SortOrder), n |-> 1]>>,
               args |-> <<p.AfterId>>]
    ELSE NoPart

\* the same for the backward cursor; its id-only branch appends AfterId
BeforePart(p) ==
    IF p.BeforeId # Absent
    THEN IF p.BeforeValue # Absent
         THEN [where |-> <<[k |-> "keyset", col |-> p.SortBy,
                            op |-> BeforeOp(p.SortOrder), n |-> 3]>>,
               args |-> <<p.BeforeValue, p.BeforeId, p.BeforeValue>>]
         ELSE [where |-> <<[k |-> "id", col |-> "typeId",
                            op |-> BeforeOp(p.SortOrder), n |-> 1]>>,
               args |-> <<p.AfterId>>]
    ELSE NoPart

\* (mutant) ORDER BY sortBy order LIMIT ?, without the typeId tie-break
OrderPart_sortOnly(p) ==
    [order |-> <<[col |-> IF p.SortBy # "objectType" THEN p.SortBy ELSE "typeId",
                  dir |-> p.SortOrder]>>,
     args |-> << <<p.Limit>> >>]

\* ORDER BY sortBy order, typeId order LIMIT ?   or   ORDER BY typeId order LIMIT ?
OrderPart(p) ==
    IF p.SortBy # "objectType"
    THEN [order |-> <<[col |-> p.SortBy, dir |-> p.SortOrder],
                      [col |-> "typeId", dir |-> p.SortOrder]>>,
          args |-> << <<p.Limit>> >>]
    ELSE [order |-> <<[col |-> "typeId", dir |-> p.SortOrder]>>,
          args |-> << <<p.Limit>> >>]

\* the query text (its predicates and ordering) and the replacements
ListQuery(p) ==
    [where |-> FilterPart(p).where \o AfterPart(p).where \o BeforePart(p).where,
     order |-> OrderPart(p).order,
     args |-> FilterPart(p).args \o AfterPart(p).args \o BeforePart(p).args
                 \o OrderPart(p).args]

\* ---- what the database does with the query
RECURSIVE Offset(_, _)
Offset(where, i) == IF i = 1 THEN 0 ELSE Offset(where, i - 1) + where[i - 1].n

Placeholders(q) == Offset(q.where, Len(q.where) + 1) + 1

\* the replacement bound to the j-th placeholder of the i-th predicate
Arg(q, i, j) == q.args[Offset(q.where, i) + j]

ColumnsOf(q) ==
    {q.where[i].col : i \in DOMAIN q.where} \cup {q.order[i].col : i \in DOMAIN q.order}

\* wrong number of replacements, or a column the table does not have
SqlError(q) == Len(q.args) # Placeholders(q) \/ ~(ColumnsOf(q) \subseteq Columns)

ClauseHolds(r, q, i) ==
    LET c == q.where[i] IN
    CASE c.k = "like" -> Like(Column(r, c.col), Arg(q, i, 1))
      [] c.k = "keyset" ->
            \/ Cmp(c.op, Column(r, c.col), Arg(q, i, 1))
            \/ Cmp(c.op, r.typeId, Arg(q, i, 2)) /\ Column(r, c.col) = Arg(q, i, 3)
      [] c.k = "id" -> Cmp(c.op, r.typeId, Arg(q, i, 1))

\* WHERE deletedAt IS NULL AND ...
Matching(table, q) ==
    {r \in table : ~r.deleted /\ \A i \in DOMAIN q.where : ClauseHolds(r, q, i)}

\* r1 is strictly before r2 under ORDER BY order[i], order[i+1], ...
RECURSIVE Precedes(_, _, _, _)
Precedes(r1, r2, order, i) ==
    IF i > Len(order) THEN FALSE
    ELSE LET a == Column(r1, order[i].col)
             b == Column(r2, order[i].col)
         IN IF a # b
            THEN IF order[i].dir = Desc THEN Less(b, a) ELSE Less(a, b)
            ELSE Precedes(r1, r2, order, i + 1)

Perms(S) ==
    {s \in [1..Cardinality(S) -> S] : \A i, j \in DOMAIN s : i # j => s[i] # s[j]}

\* (mutant) the LIMIT is ignored
Take_all(s, n) == s

\* LIMIT n
Take(s, n) == SubSeq(s, 1, IF n < Len(s) THEN n ELSE Len(s))

\* every row sequence the database may answer: rows the ORDER BY leaves
\* tied come in any order
SelectResults(table, q) ==
    LET lim == q.args[Placeholders(q)][1] IN
    {Take(s, lim) : s \in {t \in Perms(Matching(table, q)) :
                             \A i, j \in DOMAIN t : i < j => ~Precedes(t[j], t[i], q.order, 1)}}

\* MySQLRepository.List: the (models, err) it may return
ListResults(table, p) ==
    LET q == ListQuery(p) IN
    IF SqlError(q)
    THEN {[models |-> <<>>,
           err |-> Wrap(SQLClassify("Select", ErrDriver),
                        "Unable to get object types from mysql")]}
    ELSE {[models |-> m, err |-> Nil] : m \in SelectResults(table, q)}

\* ---- a client paging forward
FirstRequest(sortBy, sortOrder, limit) ==
    [Query |-> Absent, SortBy |-> sortBy, SortOrder |-> sortOrder,
     AfterId |-> Absent, AfterValue |-> Absent,
     BeforeId |-> Absent, BeforeValue |-> Absent, Limit |-> limit]

\* the cursor taken from the last row of a page: its typeId and its value of
\* the sort column ("objectType" names no column of a row: no value)
NextRequest(p, last) ==
    [p EXCEPT !.AfterId = last.typeId,
              !.AfterValue = IF p.SortBy \in Columns
                             THEN Column(last, p.SortBy) ELSE Absent]

Answer(p, res) ==
    /\ req' = p
    /\ page' = res.models
    /\ visited' = visited \o res.models
    /\ phase' = IF res.err # Nil THEN "failed"
                ELSE IF res.models = <<>> THEN "end" ELSE "paging"

\* the first page: List without a cursor
PageFirst(sortBy, sortOrder, limit) ==
    /\ phase = "idle"
    /\ \E res \in ListResults(rows, FirstRequest(sortBy, sortOrder, limit)) :
          Answer(FirstRequest(sortBy, sortOrder, limit), res)
    /\ UNCHANGED <<rows, txvars, datavars, svcvars, icptvars, repovars>>

\* the next page: List after the last row of the page before
PageNext ==
    /\ phase = "paging"
    /\ LET p == NextRequest(req, page[Len(page)]) IN
       \E res \in ListResults(rows, p) : Answer(p, res)
    /\ UNCHANGED <<rows, txvars, datavars, svcvars, icptvars, repovars>>

InitList ==
    /\ TxInit
    /\ rows \in Tables
    /\ phase = "idle"
    /\ req = <<>>
    /\ page = <<>>
    /\ visited = <<>>
    /\ icpt = NoStmt
    /\ RepoIdle
    /\ DataIdle
    /\ SvcIdle

NextList ==
    \/ \E sortBy \in SortBys, sortOrder \in {Asc, Desc}, limit \in Limits :
          PageFirst(sortBy, sortOrder, limit)
    \/ PageNext

SpecList == InitList /\ [][NextList]_vars

\* ---- any caller: one List call with any ListParams
\* a sortBy that names no column and is on no list of sortable fields
Unlisted == "nosuchcolumn"
AnySortBys == SortBys \cup {Unlisted}
Queries == {Absent, <<2>>}

\* the table [(1,a),(1,b),(2,c),(3,d)]: typeIds a..d are <<1>>..<<4>>, the
\* sort value is held by the non-unique column createdAt
LetterRows ==
    {[typeId |-> <<1>>, createdAt |-> <<1>>, deleted |-> FALSE],
     [typeId |-> <<2>>, createdAt |-> <<1>>, deleted |-> FALSE],
     [typeId |-> <<3>>, createdAt |-> <<2>>, deleted |-> FALSE],
     [typeId |-> <<4>>, createdAt |-> <<3>>, deleted |-> FALSE]}

\* the table {(x,10),(y,10),(z,5)}: typeIds x, y, z are <<24>>, <<25>>, <<26>>
ScoreRows ==
    {[typeId |-> <<24>>, createdAt |-> <<10>>, deleted |-> FALSE],
     [typeId |-> <<25>>, createdAt |-> <<10>>, deleted |-> FALSE],
     [typeId |-> <<26>>, createdAt |-> <<5>>, deleted |-> FALSE]}

\* the tables List is called on: the two above and every table of three
\* rows with two sort values of which at most one row is soft-deleted
CallTables ==
    {LetterRows, ScoreRows} \cup
    {t \in Tables : /\ Cardinality(t) = 3
                    /\ \A r \in t : r.createdAt # <<3>>
                    /\ Cardinality({r \in t : r.deleted}) <= 1}

\* a cursor names a row of the table: its typeId, with or without its value
\* of the sort field
Cursors(table, sortBy) ==
    {[id |-> Absent, value |-> Absent]} \cup
    UNION {{[id |-> r.typeId, value |-> v] : v \in {Absent, Column(r, sortBy)}} :
              r \in table}

ListParams(table) ==
    UNION {{[Query |-> q, SortBy |-> sortBy, SortOrder |-> sortOrder,
             AfterId |-> after.id, AfterValue |-> after.value,
             BeforeId |-> before.id, BeforeValue |-> before.value, Limit |-> limit] :
               q \in Queries, sortOrder \in {Asc, Desc},
               after \in Cursors(table, sortBy), before \in Cursors(table, sortBy),
               limit \in Limits} : sortBy \in AnySortBys}

\* List(ctx, listParams)
ListCall(p) ==
    /\ phase = "idle"
    /\ \E res \in ListResults(rows, p) :
          /\ req' = p
          /\ page' = res.models
          /\ visited' = res.models
          /\ phase' = IF res.err # Nil THEN "failed" ELSE "answered"
    /\ UNCHANGED <<rows, txvars, datavars, svcvars, icptvars, repovars>>

InitCall ==
    /\ TxInit
    /\ rows \in CallTables
    /\ phase = "idle"
    /\ req = <<>>
    /\ page = <<>>
    /\ visited = <<>>
    /\ icpt = NoStmt
    /\ RepoIdle
    /\ DataIdle
    /\ SvcIdle

NextCallList == phase = "idle" /\ \E p \in ListParams(rows) : ListCall(p)

SpecCall == InitCall /\ [][NextCallList]_vars

\* ---- the other operations of objecttype.MySQLRepository, called with a
\* context that carries no transaction (every statement commits at once)
RecordNotFound == Err("RecordNotFound")

\* the typeIds the caller writes and reads
RepoTypeIds == {<<1>>, <<1, 2>>, <<2>>}

\* what the successful writes on typeId t were so far: "none", "create",
\* "delete" (the last one was a delete), "recreate" (a create after a delete)
Hist(t) == IF t \in DOMAIN repo.hist THEN repo.hist[t] ELSE "none"

Record(t, h) == [u \in DOMAIN repo.hist \cup {t} |-> IF u = t THEN h ELSE repo.hist[u]]

\* repo.DB.ExecContext / repo.DB.GetContext with a context without transaction
RepoExec(op, storeErr) ==
    SQLClassify(op, HandleResult(getQueryableFromContext(NoTx), op, storeErr))

\* (mutant) ON DUPLICATE KEY UPDATE leaves deletedAt as it is
Upsert_keepsDeleted(table, t, now) ==
    IF \E r \in table : r.typeId = t
    THEN {IF r.typeId = t THEN [r EXCEPT !.createdAt = now] ELSE r : r \in table}
    ELSE table \cup {[typeId |-> t, createdAt |-> now, deleted |-> FALSE]}

\* INSERT INTO objectType ... ON DUPLICATE KEY UPDATE definition = ?,
\* createdAt = CURRENT_TIMESTAMP(6), deletedAt = NULL
Upsert(table, t, now) ==
    IF \E r \in table : r.typeId = t
    THEN {IF r.typeId = t THEN [r EXCEPT !.createdAt = now, !.deleted = FALSE] ELSE r :
            r \in table}
    ELSE table \cup {[typeId |-> t, createdAt |-> now, deleted |-> FALSE]}

\* UPDATE objectType SET deletedAt = ? WHERE typeId = ? AND deletedAt IS NULL
SoftDelete(table, t) ==
    {IF r.typeId = t /\ ~r.deleted THEN [r EXCEPT !.deleted = TRUE] ELSE r : r \in table}

\* SELECT ... WHERE typeId = ? AND deletedAt IS NULL
SelectByTypeId(table, t) == {r \in table : r.typeId = t /\ ~r.deleted}

\* MySQLRepository.Create (LastInsertId of the mysql driver does not fail)
Create(t, now, storeErr) ==
    LET err == RepoExec("Exec", storeErr) IN
    /\ rows' = IF storeErr = Nil THEN Upsert(rows, t, now) ELSE rows
    /\ repo' = [hist |-> IF storeErr # Nil THEN repo.hist
                         ELSE Record(t, IF Hist(t) \in {"delete", "recreate"}
                                        THEN "recreate" ELSE "create"),
                last |-> [op |-> "Create", typeId |-> t, storeErr |-> storeErr,
                          err |-> IF err # Nil
                                  THEN Wrap(err, "Unable to create object type")
                                  ELSE Nil]]
    /\ req' = <<>>
    /\ page' = <<>>
    /\ UNCHANGED <<phase, visited, txvars, datavars, svcvars, icptvars>>

\* MySQLRepository.DeleteByTypeId
DeleteByTypeId(t, storeErr) ==
    LET err == RepoExec("Exec", storeErr) IN
    /\ rows' = IF storeErr = Nil THEN SoftDelete(rows, t) ELSE rows
    /\ repo' = [hist |-> IF storeErr # Nil THEN repo.hist ELSE Record(t, "delete"),
                last |-> [op |-> "DeleteByTypeId", typeId |-> t, storeErr |-> storeErr,
                          err |-> IF err = Nil THEN Nil
                                  ELSE IF IsErrNoRows(err) THEN RecordNotFound
                                  ELSE err]]
    /\ req' = <<>>
    /\ page' = <<>>
    /\ UNCHANGED <<phase, visited, txvars, datavars, svcvars, icptvars>>

\* MySQLRepository.GetByTypeId: the store answers sql.ErrNoRows when no row
\* matches, or fails
GetByTypeId(t, fails) ==
    LET found == SelectByTypeId(rows, t)
        storeErr == IF fails THEN ErrDriver
                    ELSE IF found = {} THEN ErrNoRows ELSE Nil
        err == RepoExec("Get", storeErr)
    IN
    /\ repo' = [repo EXCEPT !.last =
                  [op |-> "GetByTypeId", typeId |-> t, storeErr |-> storeErr,
                   models |-> IF err = Nil THEN found ELSE {},
                   err |-> IF err = Nil THEN Nil
                           ELSE IF IsErrNoRows(err) THEN RecordNotFound
                           ELSE Wrap(err, "Unable to get ObjectType from mysql")]]
    /\ req' = <<>>
    /\ page' = <<>>
    /\ UNCHANGED <<rows, phase, visited, txvars, datavars, svcvars, icptvars>>

\* MySQLRepository.List without a cursor
List(p) ==
    /\ \E res \in ListResults(rows, p) :
          /\ req' = p
          /\ page' = res.models
          /\ repo' = [repo EXCEPT !.last = [op |-> "List", err |-> res.err]]
    /\ UNCHANGED <<rows, phase, visited, txvars, datavars, svcvars, icptvars>>

NextRepo ==
    \/ \E t \in RepoTypeIds, now \in Stamps, storeErr \in {Nil, ErrDriver} :
          Create(t, now, storeErr)
    \/ \E t \in RepoTypeIds, storeErr \in {Nil, ErrDriver} : DeleteByTypeId(t, storeErr)
    \/ \E t \in RepoTypeIds, fails \in BOOLEAN : GetByTypeId(t, fails)
    \/ \E sortBy \in SortBys, sortOrder \in {Asc, Desc} :
          List(FirstRequest(sortBy, sortOrder, MaxLimit))

SpecRepo == Init /\ [][NextRepo]_vars

\* -------------------------------------------------------------- RoleService
\* One caller (chain "A") calls RoleService.Create and RoleService.List, from
\* a context without a transaction or inside a unit of work of its own.
RoleIds == {<<1>>, <<2>>}
DuplicateRecord == Err("DuplicateRecord")

ObjectRow(roleId) == Row("object", roleId, "-")
RoleRow(roleId) == Row("role", roleId, "-")

\* the stores a call may find: per roleId any of its object and its role
RoleStores ==
    {UNION {(IF "object" \in f[i] THEN {ObjectRow(i)} ELSE {})
               \cup (IF "role" \in f[i] THEN {RoleRow(i)} ELSE {}) : i \in RoleIds} :
        f \in [RoleIds -> SUBSET {"object", "role"}]}

\* the statement the unit of work issues with txCtx writes on this handle
TxHandle == getQueryableFromContext(CurCtx("A"))

InUow == pc["A"] = "uow" /\ Len(stack["A"]) = job.depth + 1

Step(step, what) == [job EXCEPT !.step = step, !.trace = Append(@, what)]

Fail(err, what) == [job EXCEPT !.step = "return", !.err = err, !.trace = Append(@, what)]

JobOnly ==
    /\ NoReport
    /\ UNCHANGED <<txs, stack, pc, val, raised, events, deepest, outcome, listvars,
                   icptvars, repovars, svc>>

\* RoleService.Create: svc.Env().DB().WithinTransaction(ctx, func ...) is called
RoleServiceCreate(roleId) ==
    /\ job = NoJob
    /\ CanCall("A")
    /\ job' = [step |-> "call", op |-> "Create", roleId |-> roleId,
               depth |-> Len(stack["A"]), ctxIn |-> CurCtx("A"),
               before |-> store, err |-> Nil, trace |-> <<>>]
    /\ svc' = NoCall
    /\ NoReport
    /\ UNCHANGED <<txs, stack, pc, val, raised, events, deepest, outcome, listvars,
                   icptvars, repovars, datavars>>

\* createdObject, err := svc.objectSvc.Create(txCtx, ...); if err != nil { return err }
objectSvcCreate(e) ==
    /\ job.step = "call" /\ InUow
    /\ IF e # Nil
       THEN job' = Fail(e, "object failed") /\ UNCHANGED datavars
       ELSE /\ job' = Step("lookup", "object")
            /\ pending' = pending \cup {[tx |-> TxHandle, row |-> ObjectRow(job.roleId)]}
            /\ UNCHANGED store
    /\ JobOnly

\* _, err = svc.repo.GetByRoleId(txCtx, roleId); if err == nil { return duplicate }
repoGetByRoleId(fails) ==
    /\ job.step = "lookup" /\ InUow
    /\ LET err == IF fails THEN Wrap(ErrDriver, "Unable to get role")
                  ELSE IF RoleRow(job.roleId) \in Visible(TxHandle) THEN Nil
                  ELSE RecordNotFound
       IN job' = IF err = Nil THEN Fail(DuplicateRecord, "found")
                 ELSE Step("insert", IF fails THEN "lookup failed" ELSE "missing")
    /\ UNCHANGED datavars
    /\ JobOnly

\* newRoleId, err := svc.repo.Create(txCtx, ...); if err != nil { return err }
repoCreate(e) ==
    /\ job.step = "insert" /\ InUow
    /\ IF e # Nil
       THEN job' = Fail(e, "insert failed") /\ UNCHANGED datavars
       ELSE /\ job' = Step("reload", "inserted")
            /\ pending' = pending \cup {[tx |-> TxHandle, row |-> RoleRow(job.roleId)]}
            /\ UNCHANGED store
    /\ JobOnly

\* newRole, err = svc.repo.GetById(txCtx, newRoleId); ...; return nil
repoGetById(e) ==
    /\ job.step = "reload" /\ InUow
    /\ job' = IF e # Nil THEN Fail(e, "reload failed")
              ELSE [job EXCEPT !.step = "return", !.trace = Append(@, "reloaded")]
    /\ UNCHANGED datavars
    /\ JobOnly

\* if err != nil { return nil, err }; return newRole.ToRoleSpec(), nil
RoleServiceCreateReturn ==
    /\ job.step \in {"call", "return"}
    /\ lastRet.done /\ Len(stack["A"]) = job.depth
    /\ svc' = [op |-> "Create", roleId |-> job.roleId, ctxIn |-> job.ctxIn,
               before |-> job.before, trace |-> job.trace,
               began |-> lastRet.began, end |-> lastRet.end, endErr |-> lastRet.endErr,
               err |-> lastRet.ret, created |-> lastRet.ret = Nil]
    /\ job' = NoJob
    /\ NoReport
    /\ UNCHANGED <<txs, stack, pc, val, raised, events, deepest, outcome, listvars,
                   icptvars, repovars, datavars>>

\* RoleService.List: the repository cannot be built, or its List fails, or
\* it returns the roles the handle of ctx sees
RoleServiceList(repoErr, listErr) ==
    /\ job = NoJob
    /\ pc["A"] \in {"idle", "uow"}
    /\ LET roles == {r \in Visible(TxHandle) : r.kind = "role"} IN
       svc' = [op |-> "List", repoErr |-> repoErr, listErr |-> listErr,
               roleSpecs |-> IF repoErr = Nil /\ listErr = Nil THEN roles ELSE {},
               err |-> IF repoErr # Nil THEN repoErr ELSE Nil]
    /\ NoReport
    /\ UNCHANGED <<txs, stack, pc, val, raised, events, deepest, outcome, listvars,
                   icptvars, repovars, datavars, job>>

\* the errors of the statements of the repositories and of NewRepository
RepoErrors == {Wrap(SQLClassify("Exec", ErrDriver), "Unable to create")}
ListErrors == {Wrap(SQLClassify("Select", ErrDriver), "Unable to list roles")}
NewRepositoryErrors == {Err("Invalid database provided")}

\* WithinTransaction was called by RoleService.Create and has not run yet
CallPending == job.step = "call" /\ ~lastRet.done /\ Len(stack["A"]) = job.depth

\* the caller itself, outside RoleService and outside any transaction
Outside == job = NoJob /\ pc["A"] = "idle"

InitRole ==
    /\ TxInit
    /\ ListIdle
    /\ icpt = NoStmt
    /\ RepoIdle
    /\ store \in RoleStores
    /\ pending = {}
    /\ SvcIdle

NextRole ==
    \/ \E roleId \in RoleIds : RoleServiceCreate(roleId)
    \/ (CallPending \/ Outside) /\ WithinTransactionBegin("A")
    \/ CallPending /\ WithinTransactionReuse("A")
    \/ CallPending /\ WithinTransactionBeginFail("A")
    \/ \E e \in RepoErrors \cup {Nil} : objectSvcCreate(e)
    \/ \E fails \in BOOLEAN : repoGetByRoleId(fails)
    \/ \E e \in RepoErrors \cup {Nil} : repoCreate(e)
    \/ \E e \in RepoErrors \cup {Nil} : repoGetById(e)
    \/ job.step = "return" /\ InUow /\ UowReturn("A", job.err)
    \/ job = NoJob /\ \E e \in {Nil, Err("e1")} : UowReturn("A", e)
    \/ ReturnReuse("A")
    \/ \E e \in {Nil, ErrCommit, ErrRollback} : DeferredEndTx("A", e)
    \/ RoleServiceCreateReturn
    \/ \E repoErr \in NewRepositoryErrors \cup {Nil}, listErr \in ListErrors \cup {Nil} :
          RoleServiceList(repoErr, listErr)
    \/ job = NoJob /\ NextCall("A")

SpecRole == InitRole /\ [][NextRole]_vars

\* ------------------------------------------------------------------ claims
Begins(c) == CountEv(c, {"begin"})
Ends(c) == CountEv(c, {"commit", "rollback"})
EvIndex(c, K) == {i \in DOMAIN events[c] : events[c][i].k \in K}

\* C1: whatever the nesting depth and whatever the units of work do, an
\* outermost call begins at most one transaction, and once its unit of work
\* has run it has begun exactly one transaction and ended exactly that one,
\* exactly once (a failed Beginx starts and ends nothing).
C1_OneBeginOneEnd ==
    \A c \in Chains :
       /\ Begins(c) + CountEv(c, {"beginfail"}) <= 1
       /\ Ends(c) <= Begins(c)
       /\ pc[c] \in {"uow", "ret", "panic"} => Begins(c) = 1 /\ Ends(c) = 0
       /\ pc[c] = "repanic" => Begins(c) = 1 /\ Ends(c) = 1
       /\ pc[c] = "done" =>
             IF CountEv(c, {"beginfail"}) = 1
             THEN Begins(c) = 0 /\ Ends(c) = 0
             ELSE /\ Begins(c) = 1 /\ Ends(c) = 1
                  /\ \A i \in EvIndex(c, {"begin"}), j \in EvIndex(c, {"commit", "rollback"}) :
                        i < j /\ events[c][i].arg = events[c][j].arg

C1_Witness ==
    \E c \in Chains :
       pc[c] = "done" /\ deepest[c] >= 3 /\ Begins(c) = 1 /\ Ends(c) = 1

\* C2: when the unit of work returned nil and the commit failed, the call
\* that began the transaction returns a non-nil error.
C2_CommitErrorReturned ==
    (lastRet.done /\ lastRet.began = "ok" /\ ~lastRet.panicked
        /\ lastRet.uowErr = Nil /\ lastRet.end = "commit" /\ lastRet.endErr # Nil)
    => lastRet.ret # Nil

\* C3: a panic of a unit of work, at any depth, leaves the outermost call
\* only after a rollback was attempted; no commit happens and the value
\* that leaves the call is the value that was raised.
C3_PanicRollsBack ==
    \A c \in Chains :
       /\ pc[c] = "panic" => Ends(c) = 0 /\ outcome[c].kind = "none"
       /\ pc[c] = "repanic" =>
             CountEv(c, {"rollback"}) = 1 /\ CountEv(c, {"commit"}) = 0
                /\ outcome[c].kind = "none"
       /\ outcome[c].kind = "panic" =>
             /\ outcome[c].p = raised[c]
             /\ CountEv(c, {"commit"}) = 0
             /\ CountEv(c, {"rollback"}) = 1
             /\ \A i \in EvIndex(c, {"panic"}), j \in EvIndex(c, {"rollback"}) : i < j

C3_Witness ==
    \E c \in Chains :
       /\ outcome[c].kind = "panic" /\ outcome[c].p = "p2"
       /\ \E i \in EvIndex(c, {"panic"}) : events[c][i].arg >= 3

\* C4: when the unit of work of the call that began the transaction returns
\* a non-nil error, that call attempts a rollback, never commits, and returns
\* exactly that error, also when the rollback fails.
C4_UowErrorReturned ==
    (lastRet.done /\ lastRet.began = "ok" /\ ~lastRet.panicked /\ lastRet.uowErr # Nil)
    => /\ lastRet.end = "rollback"
       /\ lastRet.ret = lastRet.uowErr
       /\ CountEv(lastRet.chain, {"commit"}) = 0
       /\ CountEv(lastRet.chain, {"rollback"}) = 1
       /\ txs[lastRet.tx].status \in {"rolledback", "failed"}
       /\ stack[lastRet.chain] = <<>> =>
             outcome[lastRet.chain] = [kind |-> "ret", err |-> lastRet.uowErr]

C4_Witness ==
    /\ lastRet.done /\ lastRet.began = "ok" /\ ~lastRet.panicked
    /\ lastRet.uowErr = Err("e2") /\ lastRet.endErr = ErrRollback
    /\ outcome[lastRet.chain] = [kind |-> "ret", err |-> Err("e2")]

\* C5: a call made with a context that already carries a transaction hands
\* that same context to its unit of work, returns its error unchanged, and
\* itself begins, commits and rolls back nothing: the transaction is still
\* open when it returns.
C5_NestedCallBorrows ==
    (lastRet.done /\ lastRet.ctxIn # NoTx)
    => /\ lastRet.began = "reused" /\ lastRet.tx = NoTx
       /\ lastRet.uowRan
       /\ lastRet.ctx = lastRet.ctxIn
       /\ lastRet.end = "none"
       /\ ~lastRet.panicked => lastRet.ret = lastRet.uowErr
       /\ txs[lastRet.ctxIn].status = "open"
       /\ Begins(lastRet.chain) = 1 /\ Ends(lastRet.chain) = 0

C5_Witness ==
    /\ lastRet.done /\ lastRet.ctxIn # NoTx /\ ~lastRet.panicked
    /\ lastRet.uowErr = Err("e1") /\ lastRet.ret = Err("e1")

\* C6: when Beginx fails the call returns a non-nil error caused by the begin
\* failure at once: no unit of work was entered, nothing was committed or
\* rolled back.
C6_BeginFailureReturns ==
    (lastRet.done /\ lastRet.began = "failed")
    => /\ lastRet.ret # Nil /\ Cause(lastRet.ret) = ErrBegin
       /\ ~lastRet.uowRan /\ lastRet.end = "none"
       /\ events[lastRet.chain] = <<[k |-> "beginfail", arg |-> NoTx]>>
       /\ deepest[lastRet.chain] = 0
       /\ pc[lastRet.chain] = "done"
       /\ outcome[lastRet.chain] = [kind |-> "ret", err |-> lastRet.ret]
       /\ \A t \in DOMAIN txs : txs[t].owner = lastRet.chain => txs[t].status # "open"

C6_Witness ==
    /\ lastRet.done /\ lastRet.began = "failed"
    /\ outcome[lastRet.chain].kind = "ret" /\ outcome[lastRet.chain].err # Nil

\* The state part of C7: an operation runs on the transaction stored in the
\* context it is given, and on the shared connection when there is none; an
\* operation issued inside a unit of work with the context it was handed
\* runs on the open transaction of that outermost call; running it changes
\* nothing of the transaction state.
C7_RunsOnResolvedHandle ==
    lastOp.done =>
       /\ lastOp.handle = (IF lastOp.ctx # NoTx THEN lastOp.ctx ELSE DBHandle)
       /\ lastOp.scope # NoTx => lastOp.handle = lastOp.scope /\ lastOp.open
       /\ lastOp.scope = NoTx => lastOp.handle = DBHandle

C7_ResolveIsPure ==
    [][lastOp'.done => UNCHANGED <<txs, stack, pc, val, raised, events, deepest, outcome>>]_vars

\* C7: every capability operation runs on the handle its context resolves
\* to (the transaction of the enclosing outermost call, else the shared
\* connection), and running it leaves the transaction state unchanged.
C7_Resolve == []C7_RunsOnResolvedHandle /\ C7_ResolveIsPure

C7_Witness ==
    /\ lastOp.done /\ lastOp.op = "Select" /\ lastOp.depth >= 2
    /\ lastOp.scope # NoTx /\ lastOp.handle = lastOp.scope

\* The parts of C8: each chain has at most one open transaction,
\* an operation never runs on a transaction another chain began, and a
\* transaction changes only by a commit or rollback of its owner.
OpenTxs(c) == {t \in DOMAIN txs : txs[t].owner = c /\ txs[t].status = "open"}

C8_OwnTransaction ==
    /\ \A c \in Chains : Cardinality(OpenTxs(c)) <= 1
    /\ (lastOp.done /\ lastOp.handle # DBHandle) =>
          /\ lastOp.handle \in DOMAIN txs
          /\ txs[lastOp.handle].owner = lastOp.chain

C8_OwnerEnds ==
    [][\A t \in DOMAIN txs :
          txs'[t] # txs[t] =>
             LET o == txs[t].owner IN
             /\ \E k \in {"commit", "rollback"} :
                   events'[o] = Append(events[o], [k |-> k, arg |-> t])
             /\ \A t2 \in DOMAIN txs : t2 # t => txs'[t2] = txs[t2]
             /\ \A c \in Chains \ {o} :
                   events'[c] = events[c] /\ stack'[c] = stack[c] /\ pc'[c] = pc[c]]_vars

\* C8: each concurrent chain has at most one open transaction, operations
\* run only on the issuing chain's own transaction, and only the owner's
\* commit or rollback changes a transaction.
C8_Isolation == []C8_OwnTransaction /\ C8_OwnerEnds

C8_Witness ==
    /\ lastOp.done /\ lastOp.handle # DBHandle
    /\ txs[lastOp.handle].owner = lastOp.chain
    /\ \E t \in DOMAIN txs :
          txs[t].owner # lastOp.chain /\ txs[t].status = "open"

\* C9: whenever the store answers a capability operation that returns an
\* error with sql.ErrNoRows, the caller gets an error it recognises as
\* sql.ErrNoRows.
C9_NoRowsKeepsIdentity ==
    (lastOp.done /\ lastOp.op # "QueryRow" /\ lastOp.storeErr = ErrNoRows)
    => IsErrNoRows(lastOp.err)

\* C16: every capability operation, on the shared connection and on a
\* transaction alike, hands the context of its caller to the statement
\* execution, in both builds of sql.go.
C16_ContextReachesStatement ==
    lastOp.done => \A b \in Builds : lastOp.ctxPassed[b]

\* C10: paging forward over an unchanging table, each request taking its
\* cursor from the last row of the page before, returns every live row
\* exactly once, in (sortBy, typeId) order of the requested direction.
SortValue(r, sortBy) == IF sortBy = "createdAt" THEN r.createdAt ELSE r.typeId

InOrder(r1, r2, sortBy, sortOrder) ==
    LET a1 == SortValue(r1, sortBy)
        a2 == SortValue(r2, sortBy)
    IN IF sortOrder = Asc
       THEN Less(a1, a2) \/ (a1 = a2 /\ Less(r1.typeId, r2.typeId))
       ELSE Less(a2, a1) \/ (a1 = a2 /\ Less(r2.typeId, r1.typeId))

Live(table) == {r \in table : ~r.deleted}

C10_PagingVisitsEachRowOnce ==
    phase # "idle" =>
       /\ phase # "failed"
       /\ \A i \in DOMAIN visited : visited[i] \in Live(rows)
       /\ \A i, j \in DOMAIN visited :
             i < j => InOrder(visited[i], visited[j], req.SortBy, req.SortOrder)
       /\ \A r \in Live(rows) :
             (\E i \in DOMAIN visited : visited[i] = r)
             \/ (/\ phase = "paging"
                 /\ InOrder(visited[Len(visited)], r, req.SortBy, req.SortOrder))

C10_Witness ==
    /\ phase = "end" /\ req.Limit = 1
    /\ req.SortBy = "createdAt" /\ req.SortOrder = Desc
    /\ Len(visited) >= 3
    /\ visited[1].createdAt = visited[2].createdAt
    /\ \E r \in rows : r.deleted

\* ---- single List calls
Ids(models) == [i \in DOMAIN models |-> models[i].typeId]

\* the rows of S in (sortBy, typeId) order of the direction
Sorted(S, sortBy, sortOrder) ==
    CHOOSE s \in Perms(S) :
       \A i, j \in DOMAIN s : i < j => InOrder(s[i], s[j], sortBy, sortOrder)

\* the position (value, id) in (sortBy, typeId) order
Position(value, id) == [typeId |-> id, createdAt |-> value]

\* a call with a forward cursor and nothing else, sorted by a column
ForwardOnly(p) ==
    /\ p.Query = Absent /\ p.SortBy \in Columns
    /\ p.AfterId # Absent /\ p.AfterValue # Absent /\ p.BeforeId = Absent

\* a call with a backward cursor and nothing else, sorted by a column
BackwardOnly(p) ==
    /\ p.Query = Absent /\ p.SortBy \in Columns
    /\ p.BeforeId # Absent /\ p.BeforeValue # Absent /\ p.AfterId = Absent

\* C11: a List call with a forward cursor (AfterId and AfterValue set), sorted
\* by a column, returns the live rows strictly after (AfterValue, AfterId) in
\* (sortBy, typeId) order of the requested direction, in that order, up to the
\* limit; on [(1,a),(1,b),(2,c),(3,d)] ascending, after (1, a) it returns
\* [b, c, d].
C11_ForwardCursor ==
    (phase # "idle" /\ ForwardOnly(req)) =>
       /\ phase = "answered"
       /\ page = Take(Sorted({r \in Live(rows) :
                                InOrder(Position(req.AfterValue, req.AfterId), r,
                                        req.SortBy, req.SortOrder)},
                             req.SortBy, req.SortOrder), req.Limit)
       /\ (/\ rows = LetterRows /\ req.SortBy = "createdAt" /\ req.SortOrder = Asc
           /\ req.AfterId = <<1>> /\ req.AfterValue = <<1>> /\ req.Limit >= 3)
          => Ids(page) = << <<2>>, <<3>>, <<4>> >>

C11_Witness ==
    /\ phase = "answered" /\ ForwardOnly(req)
    /\ rows = LetterRows /\ req.SortBy = "createdAt" /\ req.SortOrder = Asc
    /\ req.AfterId = <<1>> /\ req.AfterValue = <<1>>
    /\ Ids(page) = << <<2>>, <<3>>, <<4>> >>

\* C12: a List call with a backward cursor (BeforeId and BeforeValue set),
\* sorted by a column, returns live rows strictly before (BeforeValue,
\* BeforeId) in (sortBy, typeId) order of the requested direction, listed in
\* that order, up to the limit; on [(1,a),(1,b),(2,c),(3,d)] ascending,
\* before (2, c) it returns [a, b].
C12_BackwardCursor ==
    (phase # "idle" /\ BackwardOnly(req)) =>
       /\ phase = "answered"
       /\ page = Take(Sorted({r \in Live(rows) :
                                InOrder(r, Position(req.BeforeValue, req.BeforeId),
                                        req.SortBy, req.SortOrder)},
                             req.SortBy, req.SortOrder), req.Limit)
       /\ (/\ rows = LetterRows /\ req.SortBy = "createdAt" /\ req.SortOrder = Asc
           /\ req.BeforeId = <<3>> /\ req.BeforeValue = <<2>> /\ req.Limit >= 2)
          => Ids(page) = << <<1>>, <<2>> >>

C12_Witness ==
    /\ phase = "answered" /\ BackwardOnly(req)
    /\ rows = LetterRows /\ req.SortBy = "createdAt" /\ req.SortOrder = Asc
    /\ req.BeforeId = <<3>> /\ req.BeforeValue = <<2>>
    /\ Ids(page) = << <<1>>, <<2>> >>

\* a call with a filter and a forward cursor, sorted by a column
FilterForward(p) ==
    /\ p.Query # Absent /\ p.SortBy \in Columns
    /\ p.AfterId # Absent /\ p.BeforeId = Absent

\* r is past the forward cursor of p
PastAfter(r, p) ==
    IF p.AfterValue # Absent
    THEN InOrder(Position(p.AfterValue, p.AfterId), r, p.SortBy, p.SortOrder)
    ELSE IF p.SortOrder = Asc THEN Less(p.AfterId, r.typeId)
         ELSE Less(r.typeId, p.AfterId)

\* C13: a List call with a non-empty Query and a forward cursor succeeds and
\* returns only rows whose typeId contains Query and that are past the
\* cursor: the search term is bound to the LIKE placeholder and the cursor
\* value to the first placeholder of the cursor predicate.
C13_FilterAndCursor ==
    (phase # "idle" /\ FilterForward(req)) =>
       /\ phase = "answered"
       /\ \A i \in DOMAIN page :
             Like(page[i].typeId, SearchTerm(req.Query)) /\ PastAfter(page[i], req)
       /\ LET q == ListQuery(req) IN
          /\ Arg(q, 1, 1) = SearchTerm(req.Query)
          /\ Arg(q, 2, 1) = (IF req.AfterValue # Absent THEN req.AfterValue
                             ELSE req.AfterId)

\* the call of the score example: limit 2, descending by the sort value, on
\* the table {(x,10),(y,10),(z,5)}, with the given forward cursor
NoCursor == [id |-> Absent, value |-> Absent]

ScoreCall(p, after) ==
    /\ rows = ScoreRows
    /\ p.Query = Absent /\ p.SortBy = "createdAt" /\ p.SortOrder = Desc
    /\ p.Limit = 2 /\ p.BeforeId = Absent
    /\ p.AfterId = after.id /\ p.AfterValue = after.value

\* C14 as stated: without a cursor the call returns [x, y], and with
\* afterId = y, afterValue = 10 it returns [z].
C14_ScorePagesAsStated ==
    phase # "idle" =>
       /\ ScoreCall(req, NoCursor) => Ids(page) = << <<24>>, <<25>> >>
       /\ ScoreCall(req, [id |-> <<25>>, value |-> <<10>>]) => Ids(page) = << <<26>> >>

\* C14: with limit 2, descending by score, on {(x,10),(y,10),(z,5)}, the call
\* without a cursor returns [y, x] (the tie broken by id descending), and the
\* follow-up call with afterId = x, afterValue = 10 returns [z].
C14_ScorePages ==
    phase # "idle" =>
       /\ ScoreCall(req, NoCursor) => Ids(page) = << <<25>>, <<24>> >>
       /\ ScoreCall(req, [id |-> <<24>>, value |-> <<10>>]) => Ids(page) = << <<26>> >>

C14_Witness ==
    /\ phase = "answered"
    /\ ScoreCall(req, [id |-> <<24>>, value |-> <<10>>])
    /\ Ids(page) = << <<26>> >>

\* C15: a sortBy that is not one of the sortable fields is no part of the
\* query List builds.
C15_SortByAllowListed ==
    (phase # "idle" /\ req.SortBy \notin SortBys)
    => req.SortBy \notin ColumnsOf(ListQuery(req))

\* C17: StmtQueryContext and StmtExecContext return exactly the result and
\* the error the statement they delegate to returned (and StmtQueryContext
\* the context it was given), for every duration, with or without a
\* slow-query warning.
C17_InterceptorObserves ==
    icpt.done =>
       /\ icpt.ret = icpt.answer
       /\ icpt.kind = "query" => icpt.retCtx = icpt.ctx

C17_Witness ==
    /\ icpt.done /\ icpt.kind = "exec" /\ icpt.warning.logged
    /\ icpt.answer.err = ErrDriver /\ icpt.ret.err = ErrDriver
    /\ icpt.warning.query = <<1, Space, 2>> /\ icpt.query # <<1, Space, 2>>

\* C18: when BeforeId is set and BeforeValue is not, the last predicate of
\* the query compares typeId (< ascending, > descending) with a placeholder
\* whose replacement is BeforeId.
C18_BeforeIdBound ==
    (phase # "idle" /\ req.BeforeId # Absent /\ req.BeforeValue = Absent) =>
       LET q == ListQuery(req)
           i == Len(q.where)
       IN /\ q.where[i] = [k |-> "id", col |-> "typeId",
                           op |-> IF req.SortOrder = Asc THEN "<" ELSE ">", n |-> 1]
          /\ Arg(q, i, 1) = req.BeforeId

\* the replacements each placeholder of the query is meant for, in order
IntendedArgs(p) ==
    (IF p.Query # Absent THEN <<SearchTerm(p.Query)>> ELSE <<>>)
    \o (IF p.AfterId = Absent THEN <<>>
        ELSE IF p.AfterValue # Absent THEN <<p.AfterValue, p.AfterId, p.AfterValue>>
        ELSE <<p.AfterId>>)
    \o (IF p.BeforeId = Absent THEN <<>>
        ELSE IF p.BeforeValue # Absent THEN <<p.BeforeValue, p.BeforeId, p.BeforeValue>>
        ELSE <<p.BeforeId>>)
    \o << <<p.Limit>> >>

\* C19: for every ListParams the query has as many placeholders as
\* replacements are passed, and the i-th replacement is the value meant for
\* the i-th placeholder, the limit last.
C19_ArgsMatchPlaceholders ==
    phase # "idle" =>
       LET q == ListQuery(req) IN
       /\ Len(q.args) = Placeholders(q)
       /\ q.args = IntendedArgs(req)

\* C20: the query orders by sortBy and then typeId, both in sortOrder, and by
\* typeId alone when sortBy is "objectType"; the rows of an answer are in that
\* order and are at most Limit.
C20_OrderAndLimit ==
    /\ phase # "idle" =>
          ListQuery(req).order =
             IF req.SortBy = "objectType"
             THEN <<[col |-> "typeId", dir |-> req.SortOrder]>>
             ELSE <<[col |-> req.SortBy, dir |-> req.SortOrder],
                    [col |-> "typeId", dir |-> req.SortOrder]>>
    /\ phase = "answered" =>
          /\ Len(page) <= req.Limit
          /\ \A i, j \in DOMAIN page :
                i < j => InOrder(page[i], page[j], req.SortBy, req.SortOrder)

C20_Witness ==
    /\ phase = "answered" /\ req.SortBy = "createdAt" /\ req.SortOrder = Desc
    /\ req.AfterId = Absent /\ req.BeforeId = Absent
    /\ req.Limit = 2 /\ Len(page) = 2 /\ Cardinality(Live(rows)) = 3
    /\ page[1].createdAt = page[2].createdAt

\* a call with both cursors and no filter, sorted by a column
BothCursors(p) ==
    /\ p.Query = Absent /\ p.SortBy \in Columns
    /\ p.AfterId # Absent /\ p.BeforeId # Absent

\* r is before the backward cursor of p
BeforeBefore(r, p) ==
    IF p.BeforeValue # Absent
    THEN InOrder(r, Position(p.BeforeValue, p.BeforeId), p.SortBy, p.SortOrder)
    ELSE IF p.SortOrder = Asc THEN Less(r.typeId, p.BeforeId)
         ELSE Less(p.BeforeId, r.typeId)

Between(table, p) == {r \in Live(table) : PastAfter(r, p) /\ BeforeBefore(r, p)}

\* C21: a List call with a forward and a backward cursor returns the live
\* rows that are past the forward cursor and before the backward cursor, in
\* (sortBy, typeId) order of the direction, up to the limit.
C21_BothCursors ==
    (phase # "idle" /\ BothCursors(req)) =>
       /\ phase = "answered"
       /\ page = Take(Sorted(Between(rows, req), req.SortBy, req.SortOrder), req.Limit)

\* C22: when the List of the repository fails, RoleService.List returns a
\* non-nil error with the cause of that failure; it returns nil only when the
\* listing succeeded.
C22_ListErrorReturned ==
    svc.op = "List" =>
       /\ (svc.repoErr = Nil /\ svc.listErr # Nil) =>
             svc.err # Nil /\ Cause(svc.err) = Cause(svc.listErr)
       /\ svc.err = Nil => svc.repoErr = Nil /\ svc.listErr = Nil

\* C23: RoleService.Create, called with a context without a transaction for
\* a roleId that has a role, every statement being answered by the store,
\* returns DuplicateRecord after a rollback, and the store holds what it
\* held before the call: the object written by the unit of work is gone.
C23_DuplicateRollsBack ==
    (svc.op = "Create" /\ svc.ctxIn = NoTx /\ svc.began = "ok"
        /\ RoleRow(svc.roleId) \in svc.before
        /\ \A i \in DOMAIN svc.trace : svc.trace[i] \in {"object", "found", "missing",
                                                           "inserted", "reloaded"})
    => /\ svc.trace = <<"object", "found">>
       /\ svc.err = DuplicateRecord
       /\ svc.end = "rollback"
       /\ store = svc.before
       /\ pending = {}

C23_Witness ==
    /\ svc.op = "Create" /\ svc.ctxIn = NoTx /\ svc.err = DuplicateRecord
    /\ svc.end = "rollback" /\ svc.trace = <<"object", "found">>
    /\ ObjectRow(svc.roleId) \notin store /\ RoleRow(svc.roleId) \in store
    /\ store = svc.before

\* C24: the call that began the transaction commits exactly when its own
\* unit of work returned nil, whatever the nested units of work returned, and
\* a commit that succeeds makes every row written on the transaction durable,
\* those of nested units of work that returned an error included.
C24_OutermostDecides ==
    [][(lastRet'.done /\ lastRet'.tx # NoTx /\ ~lastRet'.panicked) =>
          /\ lastRet'.end = (IF lastRet'.uowErr = Nil THEN "commit" ELSE "rollback")
          /\ (lastRet'.end = "commit" /\ lastRet'.endErr = Nil) =>
                /\ \A w \in pending :
                      w.tx = lastRet'.tx =>
                         \E r \in store' :
                            /\ r.kind = w.row.kind /\ r.id = w.row.id
                            /\ w.row.tag # "open" => r = w.row
                /\ \A w \in pending' : w.tx # lastRet'.tx]_vars

C24_Witness ==
    /\ lastRet.done /\ lastRet.tx # NoTx /\ lastRet.uowErr = Nil
    /\ lastRet.end = "commit" /\ lastRet.endErr = Nil /\ lastRet.ret = Nil
    /\ Len(txs) = 1
    /\ \E r \in store : r.tag = "failed" /\ r.id = <<2>>
    /\ \E r \in store : r.tag = "ok" /\ r.id = <<1>>

\* C25: after any sequence of Create and DeleteByTypeId calls on an empty
\* table, a type has a live row exactly when the last successful write on it
\* was a Create (also a Create after a delete); GetByTypeId returns that row
\* then and RecordNotFound otherwise; List returns live rows only.
C25_SoftDelete ==
    /\ \A t \in TypeIds :
          (SelectByTypeId(rows, t) # {}) <=> (Hist(t) \in {"create", "recreate"})
    /\ (repo.last.op = "GetByTypeId" /\ repo.last.storeErr # ErrDriver) =>
          IF Hist(repo.last.typeId) \in {"create", "recreate"}
          THEN /\ repo.last.err = Nil
               /\ \E r \in repo.last.models : r.typeId = repo.last.typeId /\ ~r.deleted
          ELSE repo.last.err = RecordNotFound /\ repo.last.models = {}
    /\ (repo.last.op = "List" /\ repo.last.err = Nil) =>
          \A i \in DOMAIN page :
             ~page[i].deleted /\ Hist(page[i].typeId) \in {"create", "recreate"}

C25_Witness ==
    /\ repo.last.op = "GetByTypeId" /\ repo.last.err = Nil
    /\ Hist(repo.last.typeId) = "recreate"
    /\ \E t \in TypeIds : Hist(t) = "delete" /\ \E r \in rows : r.typeId = t /\ r.deleted

====
